---- MODULE Spec2Model ----
(***************************************************************************)
(* Session lifecycle and load-confirmation workflow of the E2Open          *)
(* automation API server (src/test-server.js, lines 36-629).               *)
(*                                                                         *)
(* Every request handler is an async function.  A handler runs             *)
(* synchronously up to its next await and is resumed later; other handlers *)
(* may run in between.  One action of this module is one such segment:     *)
(* from the resumption after an await up to the next await.  pc[p] names   *)
(* the await request slot p is suspended at, stk[p] the continuations of   *)
(* the async functions that called the one now running.                    *)
(*                                                                         *)
(* The browser, the remote site and the clock are the environment: a       *)
(* browser may crash, the site decides which page a navigation lands on    *)
(* and whether a popup opens, and time passes.                             *)
(***************************************************************************)
EXTENDS Integers, Sequences, FiniteSets, TLC

\* ------------------------------------------------------------ bounds
\* browsers launched in one behaviour
MaxBrowsers == 3
\* requests the one-at-a-time client sends
MaxRequests == 3
\* requests sent when requests may overlap
MaxOverlap == 2
\* popup tabs opened in one browser context
MaxTabs == 2
\* milliseconds the clock may run past one timeout
ClockSlack == 3

\* ------------------------------------------------- program constants
SESSION_TIMEOUT == 1800000
maxRetries == 5

Procs    == {1, 2}
Loads    == {"L1", "L2"}
OverlapLoads == {"L1"}     \* overlapping requests ask for the same load
Browsers == 1..MaxBrowsers
MaxNow   == SESSION_TIMEOUT + ClockSlack + 1

VARIABLES
    config,          \* process.env: which of the two secrets are set
    now,             \* Date.now()
    browserSession,  \* the global session object (0 is null)
    world,           \* the browsers chromium.launch() has produced
    slots,           \* request slots the server is driven through
    nreq,            \* requests received so far
    pc, stk,         \* per request: the await it is suspended at, its callers
    req,             \* per request: the endpoint and the load number
    st,              \* per request: sessionStatus as last returned to it
    tgt,             \* per request: the handle the pending operation was issued on
    stale,           \* per request: the session object captured on the left of
                     \*   "browserSession.x = await ..." has since been replaced
    attempt,         \* per request: popup discovery's loop counter
    lrp,             \* per request: loadReportPage (NoTab, MainTab or a popup index)
    resp,            \* per request: what the last finished request produced
    hist,            \* per request: what the call in flight saw and did (history)
    calc,            \* the last file name or account-name lookup computed
    files            \* PDF_SAVE_PATH: per load, the report its file of the day holds

vars == <<config, now, browserSession, world, slots, nreq, pc, stk, req, st,
          tgt, stale, attempt, lrp, resp, hist, calc, files>>

\* --------------------------------------------------------- the pages
\* What the code can observe of a page: whether the account name is rendered,
\* whether the username textbox and the #userSubmit control are there, and what
\* its URL contains.
Blank     == [user |-> FALSE, field |-> FALSE, submit |-> FALSE, url |-> "blank"]
LoginPage == [user |-> FALSE, field |-> TRUE,  submit |-> TRUE,  url |-> "login"]
Home      == [user |-> TRUE,  field |-> FALSE, submit |-> FALSE, url |-> "webmessages"]
Uncertain == [user |-> FALSE, field |-> FALSE, submit |-> FALSE, url |-> "other"]
ReportTab == [user |-> FALSE, field |-> FALSE, submit |-> FALSE, url |-> "LoadReport"]

GotoViews   == {LoginPage, Home}             \* where the entry URL lands
SubmitViews == {Home, LoginPage, Uncertain}  \* where submitting the form lands

NullSession ==
    [browser |-> 0, context |-> 0, page |-> 0, isLoggedIn |-> FALSE,
     lastActivity |-> 0, sessionId |-> 0]

NoBrowser == [state |-> "none", view |-> Blank, mainOpen |-> FALSE, tabs |-> <<>>]

Inactive == [active |-> FALSE, loggedIn |-> FALSE, sessionId |-> 0, lastActivity |-> 0]

\* A response: a session status, an error, or the finished artifact (the load
\* asked for and the load whose report the file renders).
NoResp == [type |-> "none", err |-> "", status |-> Inactive, load |-> "", of |-> "",
           renders |-> ""]

\* History of the call in flight: the session object, its id and its browser at
\* the start of the request (session0, sid0, browser0) and the session id and handles at the entry of
\* initializeBrowserSession (sid, browser, context, page), whether the session
\* had timed out at that entry, whether checkBrowserSession then reported it
\* active but not logged in (relogin), whether a liveness probe of the call
\* has failed (probeFailed), whether the form was submitted and the account
\* name was not found afterwards (loginFailed), whether a reset began while
\* the call was at a workflow step (resetDuring), the browsers the
\* call has launched; prev is the session id
\* the ensureSession() call just before this request returned as active (0 if
\* there was none, or a browser crashed since that call began), and calm says
\* that no browser has crashed since the request began.
NoHist == [session0 |-> NullSession,
           sid0 |-> 0, browser0 |-> 0, sid |-> 0, browser |-> 0,
           context |-> 0, page |-> 0, relogin |-> FALSE, probeFailed |-> FALSE,
           loginFailed |-> FALSE, resetDuring |-> FALSE,
           expired |-> FALSE, launched |-> 0, prev |-> 0,
           calm |-> TRUE]

\* There is no file of that name.
NoFile == ""

\* The history is followed in full for the client that sends one request at a
\* time; of overlapping requests only resetDuring is followed.
Followed(h) ==
    IF slots # Procs THEN h
    ELSE [q \in Procs |-> [NoHist EXCEPT !.resetDuring = h[q].resetDuring]]

\* loadReportPage = null
NoTab == -1
\* the main session tab; popup tabs are 1, 2, ... in open order
MainTab == 0

Alive(b) == b # 0 /\ world[b].state = "live"
PageAlive(b) == Alive(b) /\ world[b].mainOpen

\* verifyLogin, lines 222-246, on a page that answers.
VerifyLogin(v) ==
    IF v.user THEN TRUE
    ELSE IF v.submit THEN FALSE
    ELSE IF v.url = "login" THEN FALSE
    ELSE TRUE

\* checkBrowserSession, lines 179-184.
IsActive ==
    browserSession.browser # 0 /\ browserSession.context # 0 /\ browserSession.page # 0

\* The comparison of line 184 made inclusive: a session idle for exactly the
\* timeout counts as timed out.
IsTimedOut_Inclusive ==
    browserSession.lastActivity # 0 /\ (now - browserSession.lastActivity) >= SESSION_TIMEOUT

\* The timeout of line 184 taken for seconds and scaled to milliseconds again.
IsTimedOut_Rescaled ==
    browserSession.lastActivity # 0
    /\ (now - browserSession.lastActivity) > SESSION_TIMEOUT * 1000

\* lines 183-184.
IsTimedOut ==
    browserSession.lastActivity # 0 /\ (now - browserSession.lastActivity) > SESSION_TIMEOUT

\* The clock is followed over one idle period: the milliseconds that browser
\* launches take, ClockSlack of them, and one idle period of exactly the timeout
\* or of a millisecond more.
CanPassMs == (now % SESSION_TIMEOUT) <= ClockSlack

\* ------------------------------------------------------------- Init
TypeOK ==
    /\ config \in [TMS_USERNAME : BOOLEAN, TMS_PASSWORD : BOOLEAN]
    /\ now \in 1..MaxNow
    /\ browserSession \in [browser : 0..MaxBrowsers, context : 0..MaxBrowsers,
                           page : 0..MaxBrowsers, isLoggedIn : BOOLEAN,
                           lastActivity : 0..MaxNow, sessionId : 0..MaxNow]
    /\ slots \subseteq Procs
    /\ nreq \in 0..MaxRequests
    /\ \A p \in Procs : lrp[p] \in NoTab..MaxTabs /\ attempt[p] \in 0..maxRetries

\* Nothing computed yet.  A date is what a Date object answers: getFullYear(),
\* getMonth() (0 for January) and getDate().
NoCalc == [kind |-> "none", load |-> "", date |-> [fullYear |-> 0, month |-> 0, date |-> 0],
           username |-> <<>>, text |-> <<>>, name |-> "", found |-> FALSE,
           page |-> FALSE, configured |-> FALSE, submit |-> 0, url |-> "",
           throws |-> "none", loggedIn |-> FALSE]

InitCommon ==
    /\ config \in [TMS_USERNAME : BOOLEAN, TMS_PASSWORD : BOOLEAN]
    /\ now = 1
    /\ browserSession = NullSession
    /\ world = [b \in Browsers |-> NoBrowser]
    /\ nreq = 0
    /\ pc = [p \in Procs |-> "idle"]
    /\ stk = [p \in Procs |-> <<>>]
    /\ req = [p \in Procs |-> [op |-> "none", load |-> ""]]
    /\ st = [p \in Procs |-> Inactive]
    /\ tgt = [p \in Procs |-> 0]
    /\ stale = [p \in Procs |-> FALSE]
    /\ attempt = [p \in Procs |-> 0]
    /\ lrp = [p \in Procs |-> NoTab]
    /\ resp = [p \in Procs |-> NoResp]
    /\ hist = [p \in Procs |-> NoHist]
    /\ calc = NoCalc
    /\ files = [L \in Loads |-> NoFile]

\* The server accepts overlapping requests: nothing in the handlers queues them.
Init == InitCommon /\ slots = Procs

\* One client that waits for each response before it sends the next request.
InitSeq == InitCommon /\ slots = {1}

\* ------------------------------------------------- control transfer
Goto(p, label, k) ==
    /\ pc' = [pc EXCEPT ![p] = label]
    /\ stk' = [stk EXCEPT ![p] = k]

\* An async function returns: its caller's continuation is resumed.
Ret(p, k) == Goto(p, Head(k), Tail(k))

\* The failed request starts its workflow over.
Fail_Retried(p, e) ==
    /\ Goto(p, "run_ready", <<>>)
    /\ UNCHANGED resp

\* An exception leaves every async function on the stack (none of them catches
\* it but the automation handler, lines 157-164, which answers 500).
Fail(p, e) ==
    /\ Goto(p, "done", <<>>)
    /\ resp' = [resp EXCEPT ![p] =
                  [NoResp EXCEPT !.type = "error", !.err = e, !.of = req[p].op,
                                 !.load = req[p].load]]

Begin(p, op, load) ==
    /\ pc[p] = "idle"
    /\ p \in slots
    /\ nreq < (IF slots = Procs THEN MaxOverlap ELSE MaxRequests)
    /\ nreq' = nreq + 1
    /\ req' = [req EXCEPT ![p] = [op |-> op, load |-> load]]
    /\ resp' = [resp EXCEPT ![p] = NoResp]
    /\ UNCHANGED <<attempt, lrp>>

\* ----------------------------------------------- closeBrowserSession
\* lines 513-531, up to the await of browser.close(); with no browser the
\* session object is replaced at once.
CloseEnter(p, k) ==
    IF browserSession.browser # 0
    THEN /\ Goto(p, "closing", k)
         /\ tgt' = [tgt EXCEPT ![p] = browserSession.browser]
         /\ UNCHANGED <<browserSession, stale>>
    ELSE /\ Ret(p, k)
         /\ browserSession' = NullSession
         /\ stale' = [q \in Procs |-> TRUE]
         /\ UNCHANGED tgt

\* browser.close() has settled (an error is swallowed, lines 516-520): the
\* browser is gone and browserSession is a new object.
CloseDone(p) ==
    /\ pc[p] = "closing"
    /\ world' = [world EXCEPT ![tgt[p]] =
                   [@ EXCEPT !.state = "closed", !.mainOpen = FALSE, !.tabs = <<>>]]
    /\ browserSession' = NullSession
    /\ stale' = [q \in Procs |-> TRUE]
    /\ Ret(p, stk[p])
    /\ UNCHANGED <<config, files, calc, now, slots, nreq, req, st, tgt, attempt, lrp, resp, hist>>

\* ----------------------------------------------- checkBrowserSession
\* lines 177-215, up to its first await.
CbsEnter(p, k) ==
    IF IsActive /\ ~IsTimedOut
    THEN /\ Goto(p, "probe", k)
         /\ tgt' = [tgt EXCEPT ![p] = browserSession.page]
         /\ UNCHANGED <<browserSession, stale, st>>
    ELSE IF IsTimedOut
    THEN /\ CloseEnter(p, <<"cbs_closed">> \o k)
         /\ UNCHANGED st
    ELSE /\ st' = [st EXCEPT ![p] = Inactive]
         /\ Ret(p, k)
         /\ UNCHANGED <<browserSession, stale, tgt>>

\* page.evaluate() has settled, lines 189-206.
ProbeDone(p) ==
    /\ pc[p] = "probe"
    /\ IF PageAlive(tgt[p])
       THEN IF browserSession.page = 0
            THEN \* verifyLogin, line 219
                 /\ st' = [st EXCEPT ![p] =
                             [active |-> TRUE, loggedIn |-> FALSE,
                              sessionId |-> browserSession.sessionId,
                              lastActivity |-> browserSession.lastActivity]]
                 /\ Ret(p, stk[p])
                 /\ UNCHANGED <<browserSession, stale, tgt>>
            ELSE /\ Goto(p, "verify", stk[p])
                 /\ tgt' = [tgt EXCEPT ![p] = browserSession.page]
                 /\ UNCHANGED <<browserSession, stale, st>>
       ELSE /\ CloseEnter(p, <<"cbs_closed">> \o stk[p])
            /\ UNCHANGED st
    /\ hist' = Followed([hist EXCEPT ![p].probeFailed = @ \/ ~PageAlive(tgt[p])])
    /\ UNCHANGED <<config, files, calc, now, world, slots, nreq, req, attempt, lrp, resp>>

\* verifyLogin's locator counts have settled, lines 224-251; checkBrowserSession
\* returns, lines 195-201.
VerifyDone(p) ==
    /\ pc[p] = "verify"
    /\ st' = [st EXCEPT ![p] =
                [active |-> TRUE,
                 loggedIn |-> IF PageAlive(tgt[p]) THEN VerifyLogin(world[tgt[p]].view)
                              ELSE FALSE,
                 sessionId |-> browserSession.sessionId,
                 lastActivity |-> browserSession.lastActivity]]
    /\ Ret(p, stk[p])
    /\ UNCHANGED <<config, files, calc, now, browserSession, world, slots, nreq, req, tgt, stale,
                   attempt, lrp, resp, hist>>

\* closeBrowserSession has returned into checkBrowserSession, lines 205 and 214.
CbsClosed(p) ==
    /\ pc[p] = "cbs_closed"
    /\ st' = [st EXCEPT ![p] = Inactive]
    /\ Ret(p, stk[p])
    /\ UNCHANGED <<config, files, calc, now, browserSession, world, slots, nreq, req, tgt, stale,
                   attempt, lrp, resp, hist>>

\* ------------------------------------------------------ performLogin
\* lines 303-312, up to the await of page.goto(); bs is the session object as
\* the caller leaves it.
LoginEnter(p, k, bs) ==
    IF bs.page = 0
    THEN Fail(p, "NoBrowserSession") /\ UNCHANGED tgt
    ELSE /\ Goto(p, "login_goto", k)
         /\ tgt' = [tgt EXCEPT ![p] = bs.page]
         /\ UNCHANGED resp

\* The entry URL has loaded, lines 312-329 (the cookie dialog is dismissed
\* best-effort and changes nothing here).  With no username textbox the session
\* is taken to be logged in, lines 356-361.
GotoDone(p) ==
    /\ pc[p] = "login_goto"
    /\ LET pg == browserSession.page
       IN IF ~PageAlive(tgt[p]) \/ ~PageAlive(pg)
          THEN /\ Fail(p, IF PageAlive(tgt[p]) /\ pg = 0 THEN "TypeError"
                          ELSE "TargetClosed")
               /\ UNCHANGED <<world, browserSession, tgt>>
          ELSE \E v \in GotoViews :
                 /\ world' = [world EXCEPT ![tgt[p]].view = v]
                 /\ IF world'[pg].view.field
                    THEN /\ Goto(p, "login_submit", stk[p])
                         /\ tgt' = [tgt EXCEPT ![p] = pg]
                         /\ UNCHANGED <<browserSession, resp>>
                    ELSE /\ browserSession' = [browserSession EXCEPT
                                                 !.isLoggedIn = TRUE, !.lastActivity = now]
                         /\ Ret(p, stk[p])
                         /\ UNCHANGED <<resp, tgt>>
    /\ UNCHANGED <<config, files, calc, now, slots, nreq, req, st, stale, attempt, lrp, hist>>

\* The form was filled and submitted and the network is idle, lines 334-355:
\* the flag is set from whether the account name is rendered.
SubmitDone(p) ==
    /\ pc[p] = "login_submit"
    /\ LET pg == browserSession.page
       IN IF ~PageAlive(tgt[p]) \/ ~PageAlive(pg)
          THEN /\ Fail(p, IF PageAlive(tgt[p]) /\ pg = 0 THEN "TypeError"
                          ELSE "TargetClosed")
               /\ UNCHANGED <<world, browserSession>>
          ELSE \E v \in SubmitViews :
                 /\ world' = [world EXCEPT ![tgt[p]].view = v]
                 /\ browserSession' = [browserSession EXCEPT
                                         !.isLoggedIn = world'[pg].view.user,
                                         !.lastActivity = now]
                 /\ Ret(p, stk[p])
                 /\ UNCHANGED resp
    /\ hist' = Followed([hist EXCEPT ![p].loginFailed =
                  @ \/ (PageAlive(tgt[p]) /\ PageAlive(browserSession.page)
                        /\ ~world'[browserSession.page].view.user)])
    /\ UNCHANGED <<config, files, calc, now, slots, nreq, req, st, tgt, stale, attempt, lrp>>

\* -------------------------------------------- initializeBrowserSession
\* The session has been idle for longer than the timeout: the time since the
\* last activity, of a session that has one.
IdlePastTimeout ==
    /\ browserSession.lastActivity > 0
    /\ now > browserSession.lastActivity + SESSION_TIMEOUT

\* line 256: the call of checkBrowserSession.
InitEnter(p, k, h) ==
    /\ CbsEnter(p, <<"init_checked">> \o k)
    /\ hist' = Followed([hist EXCEPT ![p] =
                  [h EXCEPT !.sid = browserSession.sessionId,
                            !.browser = browserSession.browser,
                            !.context = browserSession.context,
                            !.page = browserSession.page,
                            !.relogin = FALSE,
                            !.expired = IdlePastTimeout,
                            !.launched = 0]])

\* Only the user name is looked at.
CredentialsConfigured_UserOnly == config.TMS_USERNAME

\* lines 270-272: both secrets are set.
CredentialsConfigured == config.TMS_USERNAME /\ config.TMS_PASSWORD

\* The branch is never taken: a session that is not logged in is rebuilt.
ReLogin_Never(s) == FALSE

\* line 264: the session exists but is not logged in.
ReLogin(s) == s.active /\ ~s.loggedIn

\* checkBrowserSession has returned, lines 258-283.
InitChecked(p) ==
    /\ pc[p] = "init_checked"
    /\ hist' = Followed([hist EXCEPT ![p].relogin = st[p].active /\ ~st[p].loggedIn])
    /\ IF st[p].active /\ st[p].loggedIn
       THEN /\ browserSession' = [browserSession EXCEPT !.lastActivity = now]
            /\ Ret(p, stk[p])
            /\ UNCHANGED <<tgt, resp, stale>>
       ELSE IF ReLogin(st[p])
       THEN /\ LoginEnter(p, <<"init_logged">> \o stk[p], browserSession)
            /\ UNCHANGED <<browserSession, stale>>
       ELSE IF ~CredentialsConfigured
       THEN /\ Fail(p, "ConfigError")
            /\ UNCHANGED <<browserSession, tgt, stale>>
       ELSE /\ Goto(p, "launching", stk[p])
            /\ stale' = [stale EXCEPT ![p] = FALSE]
            /\ UNCHANGED <<browserSession, tgt, resp>>
    /\ UNCHANGED <<config, files, calc, now, world, slots, nreq, req, st, attempt, lrp>>

\* The browser chromium.launch() will hand out next.
NextBrowser == CHOOSE b \in Browsers :
                  /\ world[b].state = "none"
                  /\ \A c \in Browsers : c < b => world[c].state # "none"

\* chromium.launch() has resolved, lines 280-288.  The result is stored in the
\* session object that was current when the assignment started; launching takes
\* at least a millisecond.
LaunchDone(p) ==
    /\ pc[p] = "launching"
    /\ \E b \in Browsers : world[b].state = "none"
    /\ CanPassMs
    /\ now' = now + 1
    /\ LET b   == NextBrowser
           bs1 == IF stale[p] THEN browserSession
                  ELSE [browserSession EXCEPT !.browser = b]
       IN /\ world' = [world EXCEPT ![b] = [NoBrowser EXCEPT !.state = "live"]]
          /\ browserSession' = bs1
          /\ hist' = Followed([hist EXCEPT ![p].launched = @ + 1])
          /\ IF bs1.browser = 0
             THEN Fail(p, "TypeError") /\ UNCHANGED <<tgt, stale>>
             ELSE /\ Goto(p, "newctx", stk[p])
                  /\ tgt' = [tgt EXCEPT ![p] = bs1.browser]
                  /\ stale' = [stale EXCEPT ![p] = FALSE]
                  /\ UNCHANGED resp
    /\ UNCHANGED <<config, files, calc, slots, nreq, req, st, attempt, lrp>>

\* browser.newContext() has settled, lines 285-290.
NewContextDone(p) ==
    /\ pc[p] = "newctx"
    /\ IF ~Alive(tgt[p])
       THEN Fail(p, "TargetClosed") /\ UNCHANGED <<browserSession, tgt, stale>>
       ELSE LET bs1 == IF stale[p] THEN browserSession
                       ELSE [browserSession EXCEPT !.context = tgt[p]]
            IN /\ browserSession' = bs1
               /\ IF bs1.context = 0
                  THEN Fail(p, "TypeError") /\ UNCHANGED <<tgt, stale>>
                  ELSE /\ Goto(p, "newpage", stk[p])
                       /\ tgt' = [tgt EXCEPT ![p] = bs1.context]
                       /\ stale' = [stale EXCEPT ![p] = FALSE]
                       /\ UNCHANGED resp
    /\ UNCHANGED <<config, files, calc, now, world, slots, nreq, req, st, attempt, lrp, hist>>

\* context.newPage() has settled, lines 290-297: the session gets its id and
\* activity time and performLogin is called.
NewPageDone(p) ==
    /\ pc[p] = "newpage"
    /\ IF ~Alive(tgt[p])
       THEN Fail(p, "TargetClosed") /\ UNCHANGED <<browserSession, world, tgt>>
       ELSE LET bs0 == IF stale[p] THEN browserSession
                       ELSE [browserSession EXCEPT !.page = tgt[p]]
                bs1 == [bs0 EXCEPT !.sessionId = now, !.lastActivity = now]
            IN /\ world' = [world EXCEPT ![tgt[p]].mainOpen = TRUE]
               /\ browserSession' = bs1
               /\ LoginEnter(p, <<"init_logged">> \o stk[p], bs1)
    /\ UNCHANGED <<config, files, calc, now, slots, nreq, req, st, stale, attempt, lrp, hist>>

\* performLogin has returned, lines 267 and 299: return await
\* checkBrowserSession().
InitLogged(p) ==
    /\ pc[p] = "init_logged"
    /\ CbsEnter(p, stk[p])
    /\ UNCHANGED <<config, files, calc, now, world, slots, nreq, req, attempt, lrp, resp, hist>>

\* What a handler finds when it starts.
StartHist(p) ==
    [NoHist EXCEPT !.session0 = browserSession,
                   !.sid0 = browserSession.sessionId,
                   !.browser0 = browserSession.browser,
                   !.prev = IF /\ hist[p].calm
                               /\ resp[p].of = "ensure"
                               /\ resp[p].type = "status"
                               /\ resp[p].status.active
                            THEN resp[p].status.sessionId ELSE 0]

\* -------------------------------------------- executeLoadConfirmation
\* Tab i of browser b answers.
TabAlive(b, i) ==
    /\ Alive(b)
    /\ IF i = MainTab THEN world[b].mainOpen
       ELSE i \in 1..Len(world[b].tabs) /\ world[b].tabs[i] # "closed"

\* The tab is left open.
CloseTab_Skipped(w, b, i) == w

\* page.close() on tab i of browser b, line 498.
CloseTab(w, b, i) ==
    IF i = MainTab THEN [w EXCEPT ![b].mainOpen = FALSE]
    ELSE [w EXCEPT ![b].tabs[i] = "closed"]

\* The loop bound taken inclusively of a zeroth attempt.
MoreAttempts_OffByOne(a) == a <= maxRetries

\* The discovery loop goes on after attempt a, line 408.
MoreAttempts(a) == a + 1 <= maxRetries

\* The remote application opens a popup tab with the report of load L.
OpenTab(w, b, L) == [w EXCEPT ![b].tabs = Append(@, L)]

\* The scan keeps the last page that matches instead of leaving at the first.
FirstMatch_Last(w, b) ==
    IF b = 0 \/ w[b].state # "live" THEN NoTab
    ELSE LET open == {i \in 1..Len(w[b].tabs) : w[b].tabs[i] # "closed"}
         IN IF open # {} THEN CHOOSE i \in open : \A j \in open : i >= j
            ELSE IF w[b].mainOpen /\ w[b].view.url = "LoadReport" THEN MainTab
            ELSE NoTab

\* lines 428-447: the first page of context.pages(), in the order the tabs were
\* opened, whose URL or title is a load report's.  Every popup is one.
FirstMatch(w, b) ==
    IF b = 0 \/ w[b].state # "live" THEN NoTab
    ELSE IF w[b].mainOpen /\ w[b].view.url = "LoadReport" THEN MainTab
    ELSE LET open == {i \in 1..Len(w[b].tabs) : w[b].tabs[i] # "closed"}
         IN IF open = {} THEN NoTab
            ELSE CHOOSE i \in open : \A j \in open : i <= j

\* POST /api/automation, lines 98-125, and executeLoadConfirmation, lines
\* 365-374 (the directory is made before the session is touched).
StartAutomation(p, L) ==
    /\ Begin(p, "automation", L)
    /\ InitEnter(p, <<"run_ready">>, StartHist(p))
    /\ UNCHANGED <<config, files, calc, now, world, slots>>

\* Only the active flag is looked at.
NoLoggedInSession_ActiveOnly(s) == ~s.active

\* line 376: the status does not allow the workflow.
NoLoggedInSession(s) == ~s.active \/ ~s.loggedIn

\* initializeBrowserSession has returned, lines 376-398.
RunReady(p) ==
    /\ pc[p] = "run_ready"
    /\ IF NoLoggedInSession(st[p])
       THEN Fail(p, "SessionError") /\ UNCHANGED tgt
       ELSE IF browserSession.page = 0
       THEN Fail(p, "TypeError") /\ UNCHANGED tgt
       ELSE /\ Goto(p, IF world[browserSession.page].view.url # "webmessages"
                       THEN "nav" ELSE "search", stk[p])
            /\ tgt' = [tgt EXCEPT ![p] = browserSession.page]
            /\ UNCHANGED resp
    /\ UNCHANGED <<config, files, calc, now, browserSession, world, slots, nreq, req, st, stale,
                   attempt, lrp, hist>>

NavViews == {Home, LoginPage}     \* where the listing URL lands

\* The listing page has loaded, lines 387-398.
NavDone(p) ==
    /\ pc[p] = "nav"
    /\ IF ~PageAlive(tgt[p]) \/ browserSession.page = 0
       THEN /\ Fail(p, IF PageAlive(tgt[p]) THEN "TypeError" ELSE "TargetClosed")
            /\ UNCHANGED <<world, tgt>>
       ELSE \E v \in NavViews :
              /\ world' = [world EXCEPT ![tgt[p]].view = v]
              /\ Goto(p, "search", stk[p])
              /\ tgt' = [tgt EXCEPT ![p] = browserSession.page]
              /\ UNCHANGED resp
    /\ UNCHANGED <<config, files, calc, now, browserSession, slots, nreq, req, st, stale,
                   attempt, lrp, hist>>

\* The search was submitted and has settled, lines 395-426; the application may
\* have opened the popup.  A page without the search field fails the step.
SearchDone(p) ==
    /\ pc[p] = "search"
    /\ IF ~PageAlive(tgt[p])
       THEN Fail(p, "TargetClosed") /\ UNCHANGED <<world, tgt, attempt>>
       ELSE IF world[tgt[p]].view.url # "webmessages"
       THEN Fail(p, "Timeout") /\ UNCHANGED <<world, tgt, attempt>>
       ELSE IF browserSession.page = 0
       THEN Fail(p, "TypeError") /\ UNCHANGED <<world, tgt, attempt>>
       ELSE /\ \E opens \in BOOLEAN :
                 IF opens /\ Len(world[tgt[p]].tabs) < MaxTabs
                 THEN world' = OpenTab(world, tgt[p], req[p].load)
                 ELSE UNCHANGED world
            /\ attempt' = [attempt EXCEPT ![p] = 1]
            /\ Goto(p, "wait", stk[p])
            /\ tgt' = [tgt EXCEPT ![p] = browserSession.page]
            /\ UNCHANGED resp
    /\ UNCHANGED <<config, files, calc, now, browserSession, slots, nreq, req, st, stale, lrp, hist>>

\* The 3 s delay of an attempt is over, lines 426-468; the popup may have opened
\* meanwhile.  The tabs are scanned; a match goes on to the export, a miss to
\* the next attempt or, after the last one, to the load-not-found error.
WaitDone(p) ==
    /\ pc[p] = "wait"
    /\ IF ~PageAlive(tgt[p])
       THEN Fail(p, "TargetClosed") /\ UNCHANGED <<world, tgt, attempt, lrp>>
       ELSE \E opens \in BOOLEAN :
         LET w1  == IF opens /\ Len(world[tgt[p]].tabs) < MaxTabs
                    THEN OpenTab(world, tgt[p], req[p].load) ELSE world
             ctx == browserSession.context
             m   == FirstMatch(w1, ctx)
         IN /\ world' = w1
            /\ IF ctx = 0
               THEN Fail(p, "TypeError") /\ UNCHANGED <<tgt, attempt, lrp>>
               ELSE IF m # NoTab
               THEN /\ lrp' = [lrp EXCEPT ![p] = m]
                    /\ Goto(p, "pdf", stk[p])
                    /\ tgt' = [tgt EXCEPT ![p] = ctx]
                    /\ UNCHANGED <<resp, attempt>>
               ELSE IF browserSession.page = 0
               THEN Fail(p, "TypeError") /\ UNCHANGED <<tgt, attempt, lrp>>
               ELSE IF MoreAttempts(attempt[p])
               THEN /\ attempt' = [attempt EXCEPT ![p] = @ + 1]
                    /\ Goto(p, IF attempt[p] + 1 = 2 THEN "link" ELSE "wait", stk[p])
                    /\ tgt' = [tgt EXCEPT ![p] = browserSession.page]
                    /\ UNCHANGED <<resp, lrp>>
               ELSE Fail(p, "LoadNotFound") /\ UNCHANGED <<tgt, attempt, lrp>>
    /\ UNCHANGED <<config, files, calc, now, browserSession, slots, nreq, req, st, stale, hist>>

\* Second attempt only, lines 412-426: a result link with the load number is
\* clicked if there is one.  The click opens the popup or loads the report in
\* the main tab itself; any error is swallowed.
LinkDone(p) ==
    /\ pc[p] = "link"
    /\ IF ~PageAlive(tgt[p])
       THEN UNCHANGED world
       ELSE \E click \in {"nolink", "popup", "sametab"} :
              CASE click = "nolink"  -> UNCHANGED world
                [] click = "popup"   -> /\ Len(world[tgt[p]].tabs) < MaxTabs
                                        /\ world' = OpenTab(world, tgt[p], req[p].load)
                [] click = "sametab" -> world' = [world EXCEPT ![tgt[p]].view = ReportTab]
    /\ IF browserSession.page = 0
       THEN Fail(p, "TypeError") /\ UNCHANGED tgt
       ELSE /\ Goto(p, "wait", stk[p])
            /\ tgt' = [tgt EXCEPT ![p] = browserSession.page]
            /\ UNCHANGED resp
    /\ UNCHANGED <<config, files, calc, now, browserSession, slots, nreq, req, st, stale,
                   attempt, lrp, hist>>

\* loadReportPage.pdf() has settled, lines 471-498.
PdfDone(p) ==
    /\ pc[p] = "pdf"
    /\ IF ~TabAlive(tgt[p], lrp[p])
       THEN Fail(p, "TargetClosed") /\ UNCHANGED files
       ELSE LET report == IF lrp[p] = MainTab THEN req[p].load
                          ELSE world[tgt[p]].tabs[lrp[p]]
            IN /\ files' = [files EXCEPT ![req[p].load] = report]
               /\ Goto(p, "tabclose", stk[p])
               /\ UNCHANGED resp
    /\ UNCHANGED <<config, calc, now, browserSession, world, slots, nreq, req, st, tgt,
                   stale, attempt, lrp, hist>>

\* loadReportPage.close() has settled, lines 498-504 (closing a page that is
\* already gone is no error): the activity time is updated and the path of the
\* file is returned.
TabCloseDone(p) ==
    /\ pc[p] = "tabclose"
    /\ world' = IF ~TabAlive(tgt[p], lrp[p]) THEN world
                ELSE CloseTab(world, tgt[p], lrp[p])
    /\ browserSession' = [browserSession EXCEPT !.lastActivity = now]
    /\ Goto(p, "read", <<>>)
    /\ UNCHANGED <<config, files, calc, now, slots, nreq, req, st, tgt, stale, attempt, lrp,
                   resp, hist>>

\* fs.readFile(pdfPath) has settled, lines 128-145: the file's bytes are sent
\* under the response file name; a missing file is an exception like any other
\* of the try block.
ReadDone(p) ==
    /\ pc[p] = "read"
    /\ IF files[req[p].load] = NoFile
       THEN Fail(p, "ENOENT")
       ELSE /\ Goto(p, "done", <<>>)
            /\ resp' = [resp EXCEPT ![p] =
                          [NoResp EXCEPT !.type = "artifact", !.of = req[p].op,
                                         !.load = req[p].load,
                                         !.renders = files[req[p].load]]]
    /\ UNCHANGED <<config, files, calc, now, browserSession, world, slots, nreq, req, st,
                   tgt, stale, attempt, lrp, hist>>

\* ------------------------------------------------------ the handlers
\* GET /health and GET /api/session, lines 68-87.
StartStatus(p) ==
    /\ Begin(p, "status", "")
    /\ CbsEnter(p, <<"respond">>)
    /\ hist' = Followed([hist EXCEPT ![p] = StartHist(p)])
    /\ UNCHANGED <<config, files, calc, now, world, slots>>

\* The request is at one of the workflow's steps after the session check.
InWorkflow(p) == pc[p] \in {"nav", "search", "wait", "link", "pdf", "tabclose"}

\* A reset that goes to initializeBrowserSession without closing the session.
StartReset_NoClose(p) ==
    /\ Begin(p, "reset", "")
    /\ InitEnter(p, <<"respond">>, StartHist(p))
    /\ UNCHANGED <<config, files, calc, now, world, slots>>

\* POST /api/session/reset, lines 90-92.
StartReset(p) ==
    /\ Begin(p, "reset", "")
    /\ CloseEnter(p, <<"reset_closed">>)
    /\ hist' = Followed([q \in Procs |->
                  IF q = p THEN StartHist(p)
                  ELSE [hist[q] EXCEPT !.resetDuring = @ \/ InWorkflow(q)]])
    /\ UNCHANGED <<config, files, calc, now, world, slots, st>>

\* line 93.
ResetClosed(p) ==
    /\ pc[p] = "reset_closed"
    /\ InitEnter(p, <<"respond">>, hist[p])
    /\ UNCHANGED <<config, files, calc, now, world, slots, nreq, req, attempt, lrp, resp>>

\* ensureSession(): initializeBrowserSession called on its own, as the
\* workflow and the reset handler call it (lines 374 and 93), and answered with
\* the status it returns.
StartEnsure(p) ==
    /\ Begin(p, "ensure", "")
    /\ InitEnter(p, <<"respond">>, StartHist(p))
    /\ UNCHANGED <<config, files, calc, now, world, slots>>

\* res.json(status), lines 70, 86 and 94.
Respond(p) ==
    /\ pc[p] = "respond"
    /\ Goto(p, "done", <<>>)
    /\ resp' = [resp EXCEPT ![p] =
                  [NoResp EXCEPT !.type = "status", !.status = st[p], !.of = req[p].op]]
    /\ UNCHANGED <<config, files, calc, now, browserSession, world, slots, nreq, req, st, tgt,
                   stale, attempt, lrp, hist>>

\* The handler has answered (or failed) and its locals are gone; resp keeps
\* what the finished request produced, and of its history only whether a
\* browser has crashed since it began.  The response of a sent
\* file has finished and its listener unlinks pdfPath, lines 148-155 (a file
\* that is gone already is logged, no more).
Done(p) ==
    /\ pc[p] = "done"
    /\ files' = IF resp[p].type = "artifact"
                THEN [files EXCEPT ![resp[p].load] = NoFile] ELSE files
    /\ pc' = [pc EXCEPT ![p] = "idle"]
    /\ st' = [st EXCEPT ![p] = Inactive]
    /\ tgt' = [tgt EXCEPT ![p] = 0]
    /\ stale' = [stale EXCEPT ![p] = FALSE]
    /\ attempt' = [attempt EXCEPT ![p] = 0]
    /\ lrp' = [lrp EXCEPT ![p] = NoTab]
    /\ hist' = Followed([hist EXCEPT ![p] = [NoHist EXCEPT !.calm = hist[p].calm]])
    /\ UNCHANGED <<config, calc, now, browserSession, world, slots, nreq, stk, req, resp>>

\* --------------------------------------------------- the environment
\* The server sits idle for exactly the timeout, or for a millisecond more.  No
\* request is in flight: every await of a handler is bounded by seconds.
Tick ==
    /\ \A p \in Procs : pc[p] = "idle"
    /\ \E d \in {SESSION_TIMEOUT, SESSION_TIMEOUT + 1} :
          /\ now < SESSION_TIMEOUT
          /\ now + d <= MaxNow
          /\ now' = now + d
    /\ UNCHANGED <<config, files, calc, browserSession, world, slots, nreq, pc, stk, req, st, tgt,
                   stale, attempt, lrp, resp, hist>>

\* A browser process dies; its handles stay in the session object.
Crash ==
    /\ \E b \in Browsers :
          /\ world[b].state = "live"
          /\ world' = [world EXCEPT ![b] =
                         [@ EXCEPT !.state = "crashed", !.mainOpen = FALSE, !.tabs = <<>>]]
    /\ hist' = Followed([q \in Procs |-> [hist[q] EXCEPT !.calm = FALSE]])
    /\ UNCHANGED <<config, files, calc, now, browserSession, slots, nreq, pc, stk, req, st, tgt,
                   stale, attempt, lrp, resp>>

Step(p) ==
    \/ StartStatus(p)
    \/ StartReset(p)
    \/ StartEnsure(p)
    \/ \E L \in (IF slots = Procs THEN OverlapLoads ELSE Loads) : StartAutomation(p, L)
    \/ ResetClosed(p)
    \/ Respond(p)
    \/ CloseDone(p)
    \/ ProbeDone(p)
    \/ VerifyDone(p)
    \/ CbsClosed(p)
    \/ InitChecked(p)
    \/ LaunchDone(p)
    \/ NewContextDone(p)
    \/ NewPageDone(p)
    \/ GotoDone(p)
    \/ SubmitDone(p)
    \/ InitLogged(p)
    \/ RunReady(p)
    \/ NavDone(p)
    \/ SearchDone(p)
    \/ WaitDone(p)
    \/ LinkDone(p)
    \/ PdfDone(p)
    \/ TabCloseDone(p)
    \/ ReadDone(p)
    \/ Done(p)

Next == (\E p \in Procs : Step(p)) \/ Tick \/ Crash

\* One client, one request at a time, in an environment where browsers crash
\* and sessions time out.
Spec == InitSeq /\ [][Next]_vars

\* Overlapping requests, while the browsers stay up and no timeout passes.
NextOverlap == \E p \in Procs : Step(p)

SpecOverlap == Init /\ [][NextOverlap]_vars

\* ------------------------------------------------------- file names
\* String.prototype.padStart with a one-character filler.
RECURSIVE padStart(_, _, _)
padStart(str, n, c) == IF Len(str) >= n THEN str ELSE padStart(c \o str, n, c)

\* String.prototype.slice(-k): the last k characters, or all of a shorter string.
sliceLast(str, k) == IF Len(str) <= k THEN str ELSE SubSeq(str, Len(str) - k + 1, Len(str))

\* The month is taken as getMonth() answers it, January being 0.
dateStr_ZeroBasedMonth(today) ==
    padStart(ToString(today.month), 2, "0") \o "." \o
    padStart(ToString(today.date), 2, "0") \o "." \o
    sliceLast(ToString(today.fullYear), 2)

\* lines 475-477 and 132-134.
dateStr(today) ==
    padStart(ToString(today.month + 1), 2, "0") \o "." \o
    padStart(ToString(today.date), 2, "0") \o "." \o
    sliceLast(ToString(today.fullYear), 2)

\* line 478: the name of the file the report is rendered to.
pdfFilename(loadNumber, today) ==
    "RATECON MULDER BROTHERS " \o loadNumber \o " " \o dateStr(today) \o ".pdf"

\* line 135: the name the response's Content-Disposition carries.
responseFilename(loadNumber, today) ==
    "RATECON MULDER BROTHERS " \o loadNumber \o " " \o dateStr(today) \o ".pdf"

\* The days of a month of the calendar a Date follows.
DaysInMonth(y, m) ==
    IF m = 1
    THEN (IF (y % 4 = 0 /\ y % 100 # 0) \/ y % 400 = 0 THEN 29 ELSE 28)
    ELSE IF m \in {3, 5, 8, 10} THEN 30 ELSE 31

Years == {1999, 2009, 2024, 2025, 2100}
Dates == {d \in [fullYear : Years, month : 0..11, date : 1..31] :
             d.date <= DaysInMonth(d.fullYear, d.month)}
LoadNumbers == {"194828381", "7"}

\* executeLoadConfirmation names the file it renders, lines 474-479.
NamePdf(L, d) ==
    /\ calc = NoCalc
    /\ calc' = [NoCalc EXCEPT !.kind = "pdf", !.load = L, !.date = d,
                              !.name = pdfFilename(L, d)]
    /\ UNCHANGED <<config, files, now, browserSession, world, slots, nreq, pc, stk, req, st,
                   tgt, stale, attempt, lrp, resp, hist>>

\* The automation handler names the attachment, lines 131-135.
NameResponse(L, d) ==
    /\ calc = NoCalc
    /\ calc' = [NoCalc EXCEPT !.kind = "response", !.load = L, !.date = d,
                              !.name = responseFilename(L, d)]
    /\ UNCHANGED <<config, files, now, browserSession, world, slots, nreq, pc, stk, req, st,
                   tgt, stale, attempt, lrp, resp, hist>>

\* --------------------------------------------------- the account name
\* Texts are sequences of characters; the letters a and b in both cases and a
\* digit stand for the characters of an account name.
Chars == {"a", "A", "b", "B", "1"}

toUpperCaseChar(c) == CASE c = "a" -> "A" [] c = "b" -> "B" [] OTHER -> c
toLowerCaseChar(c) == CASE c = "A" -> "a" [] c = "B" -> "b" [] OTHER -> c

\* String.prototype.toUpperCase and toLowerCase.
toUpperCase(str) == [i \in 1..Len(str) |-> toUpperCaseChar(str[i])]
toLowerCase(str) == [i \in 1..Len(str) |-> toLowerCaseChar(str[i])]

\* String.prototype.includes.
includes(str, part) ==
    \E i \in 0..(Len(str) - Len(part)) : SubSeq(str, i + 1, i + Len(part)) = part

\* The text is compared as it is written, as the quoted selector text="..."
\* compares it.
textLocatorCount_Exact(body, text) == IF includes(text, body) THEN 1 ELSE 0

\* page.locator('text=' + body).count() on a page whose element has the given
\* text, lines 224 and 348-349: the unquoted text selector matches an element
\* whose text contains the body, letter case ignored.
textLocatorCount(body, text) ==
    IF includes(toLowerCase(text), toLowerCase(body)) THEN 1 ELSE 0

\* verifyLogin, lines 223-229: the user element is looked up by the upper-cased
\* user name, and a hit means logged in.
userElement(username, text) == textLocatorCount(toUpperCase(username), text)

\* performLogin, lines 348-351: isLoggedIn is set from the same lookup.
userAccount(username, text) == textLocatorCount(toUpperCase(username), text)

MaxNameLen == 2
MaxTextLen == 3
Usernames == UNION {[1..n -> Chars] : n \in 1..MaxNameLen}
Texts == UNION {[1..n -> Chars] : n \in 0..MaxTextLen}

\* verifyLogin looks for the account name on the page.
VerifyText(u, t) ==
    /\ calc = NoCalc
    /\ calc' = [NoCalc EXCEPT !.kind = "verify", !.username = u, !.text = t,
                              !.found = userElement(u, t) > 0]
    /\ UNCHANGED <<config, files, now, browserSession, world, slots, nreq, pc, stk, req, st,
                   tgt, stale, attempt, lrp, resp, hist>>

\* performLogin looks for the account name after the form was submitted.
LoginText(u, t) ==
    /\ calc = NoCalc
    /\ calc' = [NoCalc EXCEPT !.kind = "login", !.username = u, !.text = t,
                              !.found = userAccount(u, t) > 0]
    /\ UNCHANGED <<config, files, now, browserSession, world, slots, nreq, pc, stk, req, st,
                   tgt, stale, attempt, lrp, resp, hist>>

\* The login form is looked for before the account name.
verifyLogin_FormFirst(page, configured, username, text, submit, url, throws) ==
    IF ~page THEN FALSE
    ELSE IF throws = "submit" THEN FALSE
    ELSE IF submit > 0 THEN FALSE
    ELSE IF ~configured \/ throws = "user" THEN FALSE
    ELSE IF userElement(username, text) > 0 THEN TRUE
    ELSE IF includes(url, "/login") \/ includes(url, "security") THEN FALSE
    ELSE TRUE

\* verifyLogin, lines 218-252.  page: browserSession.page is set; configured:
\* TMS_USERNAME is set (toUpperCase() of undefined throws inside the try);
\* text, submit and url: the page's text, its count of #userSubmit and its URL;
\* throws: the locator count that rejects, if one does.  Every exception ends
\* in the catch of lines 248-251.
verifyLogin(page, configured, username, text, submit, url, throws) ==
    IF ~page THEN FALSE
    ELSE IF ~configured \/ throws = "user" THEN FALSE
    ELSE IF userElement(username, text) > 0 THEN TRUE
    ELSE IF throws = "submit" THEN FALSE
    ELSE IF submit > 0 THEN FALSE
    ELSE IF includes(url, "/login") \/ includes(url, "security") THEN FALSE
    ELSE TRUE

\* URLs of the application: the listing, the login page, the security check,
\* and a page that is none of them.
Urls == {"/agent/webmessages.do", "/agent/login.do", "/security/check.do",
         "/agent/loadreport.do"}

\* What a page may show next to account name u: nothing, the name as it is
\* configured, the name in upper case inside a longer text, another text.
PageTexts(u) == {<<>>, u, <<"1">> \o toUpperCase(u), <<"1">>}

\* verifyLogin is called on a page.
VerifyPage(page, configured, u, t, submit, url, throws) ==
    /\ calc = NoCalc
    /\ calc' = [NoCalc EXCEPT !.kind = "isLoggedIn", !.page = page,
                              !.configured = configured, !.username = u,
                              !.text = t, !.submit = submit, !.url = url,
                              !.throws = throws,
                              !.loggedIn = verifyLogin(page, configured, u, t,
                                                       submit, url, throws)]
    /\ UNCHANGED <<config, files, now, browserSession, world, slots, nreq, pc, stk, req, st,
                   tgt, stale, attempt, lrp, resp, hist>>

NextFunctions ==
    \/ /\ calc = NoCalc
       /\ \E page, configured \in BOOLEAN, u \in Usernames, submit \in 0..1,
             url \in Urls, throws \in {"none", "user", "submit"} :
             \E t \in PageTexts(u) :
                VerifyPage(page, configured, u, t, submit, url, throws)
    \/ calc = NoCalc /\ \E L \in LoadNumbers, d \in Dates : NamePdf(L, d)
    \/ calc = NoCalc /\ \E L \in LoadNumbers, d \in Dates : NameResponse(L, d)
    \/ calc = NoCalc /\ \E u \in Usernames, t \in Texts : VerifyText(u, t)
    \/ calc = NoCalc /\ \E u \in Usernames, t \in Texts : LoginText(u, t)

\* The naming of the file and the lookup of the account name, over dates, load
\* numbers, user names and page texts, one computation a behaviour; no request
\* is served.
InitFunctions == InitCommon /\ slots = {}

SpecFunctions == InitFunctions /\ [][NextFunctions]_vars

\* ======================================================== the claims
InFlight(p) == pc[p] \notin {"idle", "done"}

\* initializeBrowserSession has just returned a status to request p.
InitReturned(p) ==
    \/ pc[p] = "run_ready"
    \/ pc[p] = "respond" /\ req[p].op \in {"ensure", "reset"}

LiveBrowsers == {b \in Browsers : world[b].state = "live"}

\* One of the two required secrets is not set.
SecretMissing == ~config.TMS_USERNAME \/ ~config.TMS_PASSWORD

\* C1: at most one workflow executes at a time: no two automation requests are
\* between the start and the end of executeLoadConfirmation together.
C1_OneWorkflowAtATime ==
    \A p, q \in Procs :
        /\ p # q
        /\ req[p].op = "automation" /\ InFlight(p)
        => ~(req[q].op = "automation" /\ InFlight(q))

\* C2: in every reachable state at most one launched browser is live, and a
\* live browser is the one the session object refers to.
C2_OneLiveBrowser ==
    /\ Cardinality(LiveBrowsers) <= 1
    /\ \A b \in LiveBrowsers : browserSession.browser = b

\* C3: when ensureSession() has returned an active status with session id s
\* and is called again with nothing in between (no reset, no workflow, no
\* timeout, no browser crash), the second call returns an active status with
\* the same id s, launches no browser, and does not fail.
C3_EnsureIdempotent ==
    \A p \in Procs :
        /\ req[p].op = "ensure"
        /\ hist[p].prev # 0 /\ hist[p].calm /\ ~hist[p].expired
        => /\ hist[p].launched = 0
           /\ pc[p] = "respond" =>
                 st[p].active /\ st[p].sessionId = hist[p].prev
           /\ pc[p] = "done" => resp[p].type = "status"

\* C3 witness: a second, undisturbed ensureSession() call is about to answer.
C3_Witness ==
    \E p \in Procs :
        /\ req[p].op = "ensure" /\ pc[p] = "respond"
        /\ hist[p].prev # 0 /\ hist[p].calm /\ ~hist[p].expired
        /\ now > hist[p].prev

\* C4: when the session has idled past the timeout at the call of
\* initializeBrowserSession, the call closes the previous browser, crashed or
\* not, launches a new one, and neither the status it returns nor the session
\* it leaves carries the previous session id.
C4_ExpiredSessionReplaced ==
    \A p \in Procs :
        hist[p].expired /\ (InitReturned(p) \/ pc[p] = "done")
        => /\ world[hist[p].browser].state = "closed"
           /\ hist[p].launched = 1
           /\ browserSession.sessionId # hist[p].sid
           /\ InitReturned(p) /\ st[p].active =>
                 st[p].sessionId # hist[p].sid /\ st[p].sessionId # 0

\* C4 witness: a call that found the session timed out returns an active status.
C4_Witness ==
    \E p \in Procs :
        hist[p].expired /\ InitReturned(p) /\ st[p].active /\ hist[p].sid # 0

C6_LoadNotFoundKeepsSession ==
    \A p \in Procs :
        req[p].op = "automation" /\ pc[p] = "done"
        => /\ attempt[p] = 5 /\ lrp[p] = NoTab /\ resp[p].err # "TargetClosed" =>
                 resp[p].err = "LoadNotFound"
           /\ resp[p].err = "LoadNotFound" =>
                 /\ resp[p].type = "error"
                 /\ attempt[p] = 5 /\ lrp[p] = NoTab
                 /\ browserSession.sessionId = st[p].sessionId
                 /\ browserSession.sessionId # 0
                 /\ browserSession.browser # 0
                 /\ browserSession.context # 0
                 /\ browserSession.page # 0
                 /\ world[browserSession.browser].state \in {"live", "crashed"}
                 /\ Alive(browserSession.browser) => world[browserSession.page].mainOpen

\* C6 witness: a run has failed with the load-not-found error on a live browser.
C6_Witness ==
    \E p \in Procs :
        /\ pc[p] = "done" /\ resp[p].err = "LoadNotFound"
        /\ Alive(browserSession.browser)

\* C7: after any run that returns an artifact, browserSession.isLoggedIn is
\* true.
C7_LoggedInAfterRun ==
    \A p \in Procs :
        pc[p] = "done" /\ resp[p].type = "artifact" => browserSession.isLoggedIn

\* C8: after any run that returns an artifact, the tab that was exported is
\* closed and is not among the open tabs of its context.
C8_ExportedTabClosed ==
    \A p \in Procs :
        pc[p] = "done" /\ resp[p].type = "artifact"
        => /\ lrp[p] # NoTab
           /\ ~TabAlive(tgt[p], lrp[p])

\* C8 witness: a run has returned an artifact rendered from a popup tab, and
\* the browser is still up.
C8_Witness ==
    \E p \in Procs :
        /\ pc[p] = "done" /\ resp[p].type = "artifact"
        /\ lrp[p] >= 1 /\ Alive(tgt[p])

\* C9: no run terminates the reusable session: the tab that discovery selects
\* and cleanup closes is never the main session tab, and a run closes neither
\* the context nor the browser.
C9_MainTabNeverSelected ==
    \A p \in Procs :
        req[p].op = "automation" /\ pc[p] # "idle"
        => /\ lrp[p] # MainTab
           /\ browserSession.browser # 0 => world[browserSession.browser].state # "closed"

\* C10: when a required secret is missing, no browser is ever launched, the
\* session object stays all null, and every request that initializes the
\* session fails with the configuration error; the server starts all the same.
C10_MissingSecrets ==
    SecretMissing
    => /\ \A b \in Browsers : world[b].state = "none"
       /\ browserSession = NullSession
       /\ \A p \in Procs :
             pc[p] = "done" /\ req[p].op \in {"ensure", "reset", "automation"}
             => resp[p].type = "error" /\ resp[p].err = "ConfigError"

\* C10 witness: the server was started without a password, and the first
\* request that needs the session has failed with the configuration error.
C10_Witness ==
    \E p \in Procs :
        /\ config.TMS_USERNAME /\ ~config.TMS_PASSWORD
        /\ nreq = 1
        /\ pc[p] = "done" /\ resp[p].err = "ConfigError"

\* C11: when initializeBrowserSession finds a live session that has not timed
\* out and whose login check says not logged in, it logs in again on the
\* existing page and launches nothing: as long as no browser crashes, the
\* browser, context, page and session id are those the call found.
C11_ReloginKeepsSession ==
    \A p \in Procs :
        hist[p].relogin /\ hist[p].calm /\ pc[p] # "idle"
        => /\ hist[p].launched = 0
           /\ ~hist[p].expired
           /\ browserSession.browser = hist[p].browser
           /\ browserSession.context = hist[p].context
           /\ browserSession.page = hist[p].page
           /\ browserSession.sessionId = hist[p].sid
           /\ hist[p].browser # 0 /\ hist[p].sid # 0
           /\ world[hist[p].browser].state = "live"
           /\ pc[p] \notin {"init_checked", "login_goto", "login_submit"}
                 => st[p].active /\ st[p].sessionId = hist[p].sid

\* C11 witness: a call that found the session not logged in has logged in
\* again and returns a logged-in status.
C11_Witness ==
    \E p \in Procs :
        /\ hist[p].relogin /\ hist[p].calm
        /\ InitReturned(p) /\ st[p].loggedIn

\* C12: a status check is a read-only view: from its start to its answer the
\* session object (browser, context, page, login flag, activity time, session
\* id) is as the check found it, whatever state the session was in.
C12_StatusReadOnly ==
    \A p \in Procs :
        req[p].op = "status" /\ pc[p] # "idle"
        => browserSession = hist[p].session0

\* C13: whenever no request is in flight, the session has a browser handle
\* exactly if it has a context, a main page and a session id, and a session
\* without a browser handle is all null with the login flag false.  (The claim
\* is made of every reachable state; the states between two requests are the
\* ones in which no initialization is half done.)
C13_BrowserIffSession ==
    (\A p \in Procs : pc[p] \in {"idle", "done"})
    => /\ browserSession.browser # 0
          <=> /\ browserSession.context # 0
              /\ browserSession.page # 0
              /\ browserSession.sessionId # 0
       /\ browserSession.browser = 0 => browserSession = NullSession

\* The decimal digits, and a number's last two digits written out.
Digits == <<"0", "1", "2", "3", "4", "5", "6", "7", "8", "9">>
TwoDigits(n) == Digits[((n \div 10) % 10) + 1] \o Digits[(n % 10) + 1]

\* C14: the file name is 'RATECON MULDER BROTHERS <load> MM.DD.YY.pdf' with the
\* calendar month and the day as two digits, zero-padded, and the last two
\* digits of the year; for load 194828381 on 2025-01-05 it is
\* 'RATECON MULDER BROTHERS 194828381 01.05.25.pdf'.
C14_FileName ==
    calc.kind \in {"pdf", "response"}
    => /\ calc.name = "RATECON MULDER BROTHERS " \o calc.load \o " "
                         \o TwoDigits(calc.date.month + 1) \o "."
                         \o TwoDigits(calc.date.date) \o "."
                         \o TwoDigits(calc.date.fullYear) \o ".pdf"
       /\ calc.load = "194828381"
          /\ calc.date = [fullYear |-> 2025, month |-> 0, date |-> 5]
          => calc.name = "RATECON MULDER BROTHERS 194828381 01.05.25.pdf"

\* C14 witness: the file of load 194828381 has been named on 2025-01-05.
C14_Witness ==
    /\ calc.kind = "pdf"
    /\ calc.load = "194828381"
    /\ calc.date = [fullYear |-> 2025, month |-> 0, date |-> 5]
    /\ calc.name = "RATECON MULDER BROTHERS 194828381 01.05.25.pdf"

\* Two characters are the same letter, whatever their case.
LetterOf(c) == CASE c \in {"a", "A"} -> 1 [] c \in {"b", "B"} -> 2 [] OTHER -> 3
SameLetters(s, t) ==
    Len(s) = Len(t) /\ \A i \in 1..Len(s) : LetterOf(s[i]) = LetterOf(t[i])

\* The page text shows the account name u in some casing.
Rendered(u, t) ==
    \E i \in 0..(Len(t) - Len(u)) : SameLetters(SubSeq(t, i + 1, i + Len(u)), u)

\* C15: login verification ignores letter case: whenever the page renders the
\* account name, in whatever casing, both verifyLogin and the check after the
\* form is submitted report logged in, and every casing of the configured
\* user name gives the same answer on the same page.
C15_CaseInsensitiveLogin ==
    calc.kind \in {"verify", "login"}
    => /\ Rendered(calc.username, calc.text) => calc.found
       /\ \A u \in Usernames :
             SameLetters(u, calc.username)
             => /\ (userElement(u, calc.text) > 0) = calc.found
                /\ (userAccount(u, calc.text) > 0) = calc.found

\* C15 witness: the user name is configured as "aB", the page renders it as
\* "Ab", and verifyLogin reports logged in.
C15_Witness ==
    /\ calc.kind = "verify"
    /\ calc.username = <<"a", "B">>
    /\ calc.text = <<"1", "A", "b">>
    /\ calc.found

\* C16: a run navigates, searches, looks for the popup and exports only after
\* initializeBrowserSession returned a status with active and loggedIn both
\* true; when the status it returned lacks one of them, the run's next step is
\* to fail with the session error, with no page, tab or session field touched
\* and no artifact.
C16_NoWorkflowWithoutLogin ==
    /\ [](\A p \in Procs :
            /\ InWorkflow(p) => st[p].active /\ st[p].loggedIn
            /\ pc[p] = "done" /\ resp[p].type = "artifact"
                  => st[p].active /\ st[p].loggedIn
            /\ pc[p] = "done" /\ resp[p].err = "SessionError"
                  => resp[p].type = "error" /\ attempt[p] = 0 /\ lrp[p] = NoTab)
    /\ [][\A p \in Procs :
            /\ pc[p] = "run_ready" /\ pc'[p] # "run_ready"
            /\ ~(st[p].active /\ st[p].loggedIn)
            => /\ pc'[p] = "done"
               /\ resp'[p].type = "error" /\ resp'[p].err = "SessionError"
               /\ world' = world /\ browserSession' = browserSession]_vars

\* C16 witness: a run whose session came back active but not logged in has
\* failed with the session error.
C16_Witness ==
    \E p \in Procs :
        /\ req[p].op = "automation" /\ pc[p] = "done"
        /\ resp[p].err = "SessionError"
        /\ st[p].active /\ ~st[p].loggedIn

\* C17: a failed liveness probe is never surfaced: when a probe has failed
\* during a call of initializeBrowserSession, the call has rebuilt the session
\* by the time it returns, and what it returns is the status of a session that
\* is active.
C17_ProbeFailureAbsorbed ==
    \A p \in Procs :
        hist[p].probeFailed /\ InitReturned(p) => st[p].active

\* C18: when the login form was submitted and the account name was not found
\* afterwards, the failure is surfaced: an active status that
\* initializeBrowserSession returns from that call has loggedIn false, and a
\* run built on it executes no workflow step and returns no artifact.
C18_LoginFailureSurfaced ==
    \A p \in Procs :
        hist[p].loginFailed /\ pc[p] # "idle"
        => /\ InitReturned(p) /\ st[p].active => ~st[p].loggedIn
           /\ ~InWorkflow(p)
           /\ pc[p] = "done" => resp[p].type # "artifact"

\* C19: a workflow that was past its session check when a reset began fails:
\* it returns no artifact.
C19_ResetFailsWorkflow ==
    \A p \in Procs :
        hist[p].resetDuring /\ pc[p] = "done" => resp[p].type = "error"

\* The steps of a run in their order: the session step, the session check,
\* navigate, search, discover, export, cleanup, the answer.
StepRank(l) ==
    CASE l = "idle"      -> 10
      [] l = "done"      -> 9
      [] l = "read"      -> 8
      [] l = "tabclose"  -> 7
      [] l = "pdf"       -> 6
      [] l \in {"wait", "link"} -> 5
      [] l = "search"    -> 4
      [] l = "nav"       -> 3
      [] l = "run_ready" -> 2
      [] OTHER           -> 1

\* C20: a failing step short-circuits the run.  A run never goes back to an
\* earlier step, and only the discovery loop repeats, one attempt at a time up
\* to 5; the step at which an error arises is the run's last, the error is the
\* one answer of the request and is never replaced, and an answered run does
\* nothing more.  The session step launches at most one browser.
C20_FailureShortCircuits ==
    /\ [](\A p \in Procs : req[p].op = "automation" => hist[p].launched <= 1)
    /\ [][\A p \in Procs :
            req[p].op = "automation" /\ pc[p] # "idle"
            => /\ StepRank(pc'[p]) >= StepRank(pc[p])
               /\ pc'[p] # pc[p] /\ StepRank(pc[p]) # 1
                     => \/ StepRank(pc'[p]) > StepRank(pc[p])
                        \/ pc[p] = "link" /\ pc'[p] = "wait" /\ attempt'[p] = attempt[p]
                        \/ pc[p] = "wait" /\ pc'[p] = "link" /\ attempt'[p] = 2
               /\ pc'[p] = pc[p] /\ attempt'[p] # attempt[p]
                     => pc[p] = "wait" /\ attempt'[p] = attempt[p] + 1
                        /\ attempt'[p] <= 5
               /\ resp[p].type = "none" /\ resp'[p].type # "none" => pc'[p] = "done"
               /\ resp[p].type # "none"
                     => /\ resp'[p] = resp[p]
                        /\ pc[p] = "done" /\ pc'[p] \in {"done", "idle"}
                        /\ pc'[p] = "idle" \/ world' = world \/ pc' = pc]_vars

\* C20 witness: a run has failed at its export step, after the navigation, the
\* search and the discovery were done, and has answered with that one error.
C20_Witness ==
    \E p \in Procs :
        /\ req[p].op = "automation" /\ pc[p] = "done"
        /\ resp[p].type = "error" /\ resp[p].err = "TargetClosed"
        /\ lrp[p] # NoTab

\* Tab i of browser b is open and is a load report's by its URL.
IsReportTab(w, b, i) ==
    /\ b # 0 /\ w[b].state = "live"
    /\ IF i = MainTab THEN w[b].mainOpen /\ w[b].view.url = "LoadReport"
       ELSE i \in 1..Len(w[b].tabs) /\ w[b].tabs[i] # "closed"

\* Request p finishes an attempt of the discovery loop in this step: its delay
\* is over and the tabs are scanned.
ScanStep(p) ==
    /\ pc[p] = "wait"
    /\ pc'[p] # "wait" \/ attempt'[p] # attempt[p]

\* C21: popup discovery is a bounded loop.  A scan is the end of a delay and is
\* the scan of attempt 1 to 5.  A scan that finds a report tab ends the loop and
\* selects the one opened first; a scan that finds none goes to the next
\* attempt, or after the fifth to the load-not-found error.  The fallback click
\* is entered from the first scan only, as the beginning of attempt 2, and
\* whatever it finds it goes on to that attempt's delay and scan without an
\* error.  Nothing else selects a tab, and a selection is never changed.
C21_BoundedDiscovery ==
    [][\A p \in Procs :
         LET ctx == browserSession.context
             found == \E i \in MainTab..MaxTabs : IsReportTab(world', ctx, i)
         IN
         /\ ScanStep(p)
               => /\ attempt[p] \in 1..5
                  /\ IF resp'[p].type = "error"
                     THEN \/ resp'[p].err = "TargetClosed" /\ ~PageAlive(tgt[p])
                          \/ /\ resp'[p].err = "LoadNotFound"
                             /\ attempt[p] = 5 /\ ~found
                     ELSE IF found
                     THEN /\ pc'[p] = "pdf"
                          /\ IsReportTab(world', ctx, lrp'[p])
                          /\ \A j \in MainTab..MaxTabs :
                                j < lrp'[p] => ~IsReportTab(world', ctx, j)
                          /\ attempt'[p] = attempt[p]
                     ELSE /\ attempt[p] < 5 /\ attempt'[p] = attempt[p] + 1
                          /\ pc'[p] = IF attempt'[p] = 2 THEN "link" ELSE "wait"
                          /\ lrp'[p] = NoTab
         /\ pc'[p] = "link" /\ pc[p] # "link"
               => pc[p] = "wait" /\ attempt[p] = 1 /\ attempt'[p] = 2
         /\ pc[p] = "link" /\ pc'[p] # "link"
               => /\ pc'[p] = "wait" /\ attempt'[p] = 2
                  /\ resp'[p] = resp[p] /\ lrp'[p] = NoTab
         /\ lrp'[p] # lrp[p] => ScanStep(p) \/ (pc[p] = "done" /\ lrp'[p] = NoTab)
         /\ pc[p] \in {"pdf", "tabclose"} => attempt'[p] = attempt[p]]_vars

\* C21 witness: the third scan of a run has found the popup, after the fallback
\* click of the second attempt, and the export is under way.
C21_Witness ==
    \E p \in Procs : pc[p] = "pdf" /\ attempt[p] = 3 /\ lrp[p] # NoTab /\ lrp[p] # MainTab

\* The URLs that carry a login or security marker.
MarkedUrls == {"/agent/login.do", "/security/check.do"}

\* C22: verifyLogin decides in a fixed order.  The account name on the page
\* gives logged in, whether or not the login form's submit control or a login
\* URL is there as well; without the name the submit control gives not logged
\* in; without either a URL with a login or security marker gives not logged
\* in; otherwise the answer is logged in.  Without a main page, and when the
\* check that is reached throws, the answer is not logged in.
C22_VerifyLoginOrder ==
    calc.kind = "isLoggedIn"
    => LET name == Rendered(calc.username, calc.text)
       IN /\ ~calc.page => ~calc.loggedIn
          /\ calc.page /\ (~calc.configured \/ calc.throws = "user") => ~calc.loggedIn
          /\ calc.page /\ calc.configured /\ calc.throws # "user"
                => /\ name => calc.loggedIn
                   /\ ~name /\ calc.throws = "submit" => ~calc.loggedIn
                   /\ ~name /\ calc.throws = "none"
                         => calc.loggedIn = (calc.submit = 0 /\ calc.url \notin MarkedUrls)

\* C22 witness: the page shows the account name together with the submit
\* control, under a login URL, and verifyLogin has answered logged in.
C22_Witness ==
    /\ calc.kind = "isLoggedIn"
    /\ calc.page /\ calc.configured /\ calc.throws = "none"
    /\ Rendered(calc.username, calc.text)
    /\ calc.submit = 1 /\ calc.url = "/agent/login.do"
    /\ calc.loggedIn

\* C23: the artifact a run returns for load L is rendered from a report of
\* load L: no run exports a popup that an earlier run opened for another load
\* and left open.
C23_ArtifactOfOwnLoad ==
    \A p \in Procs :
        resp[p].type = "artifact" => resp[p].renders = resp[p].load

\* C24: a request whose run has returned the path of its file finds the file
\* there when it reads it and sends it: the unlink after another request's
\* response never takes away a file that was written and is not read yet.
C24_WrittenFileIsRead ==
    \A p \in Procs :
        /\ pc[p] = "read" => files[req[p].load] # NoFile
        /\ resp[p].err # "ENOENT"

====
